---------------------------- MODULE Spec2Model ----------------------------
(***************************************************************************)
(* A model of the gbemu core: the CPU interpreter (src/src/cpu.rs), the    *)
(* memory bus (src/src/bus.rs), the memories behind it (ram.rs,            *)
(* cartridge.rs), the PPU (gpu.rs) and the driver loop (emulator.rs).      *)
(*                                                                         *)
(* Bytes and words are naturals kept to their width.  A Vec<u8> of zeroes  *)
(* is a record [size, data] where data maps the indices that hold a        *)
(* non-zero byte to that byte; every other index below size holds 0.       *)
(*                                                                         *)
(* The operators below work on a record s of the whole machine:            *)
(*   registers, pc, sp, halted   the Cpu's fields                          *)
(*   bus, gpu                    the Bus's and the Gpu's fields            *)
(*   held                        the mutexes the running thread holds      *)
(*   status                      "running", "blocked" (a lock that never   *)
(*                               returns) or the message of the panic      *)
(*   relock                      the mutex requested while already held    *)
(*   ret                         the value the last bus read returned      *)
(*   build                       what the build decides: overflow checks   *)
(*                               and what a re-lock of a std Mutex does    *)
(* An operator applied to a machine that is not running changes nothing:   *)
(* this is how a panic leaves the effects made before it and stops all     *)
(* that would have followed.                                               *)
(***************************************************************************)
EXTENDS Integers, Sequences, FiniteSets, TLC

VARIABLES
    registers,  \* Cpu.registers: a, b, c, d, e, h, l and the flags f
    pc,         \* Cpu.pc
    sp,         \* Cpu.sp
    halted,     \* Cpu.halted
    bus,        \* Bus: h_ram, oam_ram, mirror_ram, working_ram, video_ram, cartridge
    gpu,        \* Gpu: data, has_bus, cycles, ly, scroll_x, scroll_y, lcdc
    held,       \* mutexes held by the (single) thread
    status,     \* "running" | "blocked" | a panic message
    relock,     \* "none", or the mutex that was requested while held
    returned,   \* value returned by the last bus read (the field ret of s)
    build,      \* [overflow_checks, relock]: fixed when the program is built
    image,      \* the ROM file handed to Emulator::from_rom_byte
    turn,       \* position of the driver loop: "cpu" | "gpu" | "api"
    executed,   \* history: the last instructions the Cpu began, newest last
    gpu_steps,  \* history: number of calls of Gpu::step made by the driver
    calls       \* history: the last calls made on the bus API, newest last

vars == <<registers, pc, sp, halted, bus, gpu, held, status, relock, returned,
          build, image, turn, executed, gpu_steps, calls>>

-----------------------------------------------------------------------------
(* Fixed-width arithmetic *)

Byte == 0..255
Pow2(n) == 2^n

RECURSIVE BitXor(_, _)
BitXor(x, y) ==
    IF x = 0 THEN y
    ELSE IF y = 0 THEN x
    ELSE (((x % 2) + (y % 2)) % 2) + 2 * BitXor(x \div 2, y \div 2)

RECURSIVE BitAnd(_, _)
BitAnd(x, y) ==
    IF x = 0 \/ y = 0 THEN 0
    ELSE ((x % 2) * (y % 2)) + 2 * BitAnd(x \div 2, y \div 2)

\* u8 << n and u8 >> n for n < 8: bits shifted out are lost, nothing aborts
Shl8(x, n) == (x * Pow2(n)) % 256
Shr(x, n) == x \div Pow2(n)

\* "x as i8" of a byte, and "i as u16" of a signed value
AsI8(x) == IF x >= 128 THEN x - 256 ELSE x
AsU16(i) == i % 65536

Running(s) == s.status = "running"

Panic(s, msg) == IF Running(s) THEN [s EXCEPT !.status = msg] ELSE s

\* An arithmetic overflow: a panic where the build checks overflow, a wrapped
\* result (computed by the caller) where it does not.
Overflow(s, cond, msg) ==
    IF cond /\ s.build.overflow_checks THEN Panic(s, msg) ELSE s

-----------------------------------------------------------------------------
(* lib.rs *)

join_half_words(upper, lower) == BitXor((upper * 256) % 65536, lower)

split_word(word) == <<Shr(word, 8) % 256, BitAnd(word, 255)>>

-----------------------------------------------------------------------------
(* Vec<u8>, ram.rs, cartridge.rs *)

VecGet(v, i) == IF i \in DOMAIN v.data THEN v.data[i] ELSE 0

VecSet(v, i, byte) ==
    [v EXCEPT !.data =
        IF byte = 0 THEN [x \in (DOMAIN v.data) \ {i} |-> v.data[x]]
        ELSE (i :> byte) @@ v.data]

Zeroes(size) == [size |-> size, data |-> <<>>]

Ram_with_size(size) == Zeroes(size)

\* s.ret receives Ram::read's result
Ram_read(s, ram, address) ==
    IF ~Running(s) THEN s
    ELSE IF address >= s.bus[ram].size THEN Panic(s, "index out of bounds")
    ELSE [s EXCEPT !.ret = VecGet(s.bus[ram], address)]

Ram_write(s, ram, address, byte) ==
    IF ~Running(s) THEN s
    ELSE IF address >= s.bus[ram].size THEN Panic(s, "index out of bounds")
    ELSE [s EXCEPT !.bus[ram] = VecSet(@, address, byte)]

Cartridge_read(s, address) ==
    IF ~Running(s) THEN s
    ELSE IF address >= s.bus.cartridge.size THEN Panic(s, "index out of bounds")
    ELSE [s EXCEPT !.ret = VecGet(s.bus.cartridge, address)]

Cartridge_write(s, address, byte) ==
    IF ~Running(s) THEN s
    ELSE IF address >= s.bus.cartridge.size THEN Panic(s, "index out of bounds")
    ELSE [s EXCEPT !.bus.cartridge = VecSet(@, address, byte)]

-----------------------------------------------------------------------------
(* Mutex<Bus>, Mutex<Gpu> *)

\* Mutex::lock().unwrap().  Locking a std Mutex the thread already holds never
\* returns: it blocks for ever or panics, as the platform's mutex decides.
Lock(s, m) ==
    IF ~Running(s) THEN s
    ELSE IF m \in s.held
    THEN [s EXCEPT !.relock = m,
                   !.status = IF s.build.relock = "deadlock" THEN "blocked"
                              ELSE "lock on a mutex held by the current thread"]
    ELSE [s EXCEPT !.held = @ \cup {m}]

\* The guard goes out of scope
Unlock(s, m) == IF ~Running(s) THEN s ELSE [s EXCEPT !.held = @ \ {m}]

-----------------------------------------------------------------------------
(* bus.rs: Device::resolve_bus_address *)

Within(addr, lo, hi) == lo <= addr /\ addr < hi

\* Device::resolve_bus_address sending work RAM to the store of video RAM
resolve_bus_address_shared(addr) ==
    CASE Within(addr, \h0000, \h8000) -> [kind |-> "Cartridge", address |-> addr]
      [] Within(addr, \h8000, \hA000) -> [kind |-> "VideoRam", address |-> addr - \h8000]
      [] Within(addr, \hA000, \hC000) -> [kind |-> "Cartridge", address |-> addr]
      [] Within(addr, \hC000, \hE000) -> [kind |-> "VideoRam", address |-> addr - \hC000]
      [] Within(addr, \hE000, \hFE00) -> [kind |-> "MirrorRam", address |-> addr - \hE000]
      [] Within(addr, \hFE00, \hFEA0) -> [kind |-> "OamRam", address |-> addr - \hFE00]
      [] Within(addr, \hFF80, \h10000) -> [kind |-> "HRam", address |-> addr - \hFF80]
      [] Within(addr, \hFF40, \hFF80) -> [kind |-> "Gpu", address |-> addr - \hFF40]
      [] OTHER -> [kind |-> "Unimplement", address |-> addr]

resolve_bus_address(addr) ==
    CASE Within(addr, \h0000, \h8000) -> [kind |-> "Cartridge", address |-> addr]
      [] Within(addr, \h8000, \hA000) -> [kind |-> "VideoRam", address |-> addr - \h8000]
      [] Within(addr, \hA000, \hC000) -> [kind |-> "Cartridge", address |-> addr]
      [] Within(addr, \hC000, \hE000) -> [kind |-> "WorkingRam", address |-> addr - \hC000]
      [] Within(addr, \hE000, \hFE00) -> [kind |-> "MirrorRam", address |-> addr - \hE000]
      [] Within(addr, \hFE00, \hFEA0) -> [kind |-> "OamRam", address |-> addr - \hFE00]
      [] Within(addr, \hFF80, \h10000) -> [kind |-> "HRam", address |-> addr - \hFF80]
      [] Within(addr, \hFF40, \hFF80) -> [kind |-> "Gpu", address |-> addr - \hFF40]
      [] addr = \hFF00 -> [kind |-> "Unimplement", address |-> addr]
      [] addr = \hFF04 -> [kind |-> "Unimplement", address |-> addr]
      [] Within(addr, \hFF05, \hFF08) -> [kind |-> "Unimplement", address |-> addr]
      [] addr = \hFF0F -> [kind |-> "Unimplement", address |-> addr]
      [] OTHER -> [kind |-> "Unimplement", address |-> addr]

-----------------------------------------------------------------------------
(* gpu.rs: Gpu::new, Gpu::read, Gpu::write; bus.rs: Bus::read_byte,       *)
(* Bus::write_byte, Bus::write_word.  Bus::write_byte calls Gpu::write,    *)
(* which calls Bus::write_byte.                                            *)

CYCLE_PER_LINE == 456
SCREEN_WIDTH == 160
TILEMAP0 == \h9800
TILEMAP1 == \h9C00

Gpu_new(size, has_bus) ==
    [data |-> Zeroes(size), has_bus |-> has_bus, cycles |-> 0, ly |-> 0,
     scroll_x |-> 0, scroll_y |-> 0, lcdc |-> \h91]

Gpu_set_bus(g) == [g EXCEPT !.has_bus = TRUE]

Gpu_read(s, address) ==
    IF ~Running(s) THEN s
    ELSE IF address >= s.gpu.data.size THEN Panic(s, "index out of bounds")
    ELSE [s EXCEPT !.ret = VecGet(s.gpu.data, address)]

\* self.bus.as_ref().unwrap()
Gpu_bus(s) ==
    IF ~Running(s) \/ s.gpu.has_bus THEN s
    ELSE Panic(s, "called Option::unwrap() on a None value")

RECURSIVE write_byte(_, _, _)

Gpu_write(s, address, byte) ==
    IF ~Running(s) THEN s
    ELSE IF address >= s.gpu.data.size THEN Panic(s, "index out of bounds")
    ELSE LET stored == [s EXCEPT !.gpu.data = VecSet(@, address, byte)]
             locked == Lock(Gpu_bus(stored), "bus")
         IN  Unlock(write_byte(locked, address, byte), "bus")

read_byte(s, address) ==
    IF ~Running(s) THEN s
    ELSE LET device == resolve_bus_address(address)
         IN  CASE device.kind = "HRam" -> Ram_read(s, "h_ram", device.address)
               [] device.kind = "OamRam" -> Ram_read(s, "oam_ram", device.address)
               [] device.kind = "MirrorRam" -> Ram_read(s, "mirror_ram", device.address)
               [] device.kind = "WorkingRam" -> Ram_read(s, "working_ram", device.address)
               [] device.kind = "VideoRam" -> Ram_read(s, "video_ram", device.address)
               [] device.kind = "Cartridge" -> Cartridge_read(s, device.address)
               [] device.kind = "Gpu" ->
                      Unlock(Gpu_read(Lock(s, "gpu"), device.address), "gpu")
               [] device.kind \in {"Timer", "P1", "DIV", "IF"} ->
                      Panic(s, "not yet implemented")
               [] device.kind = "Unimplement" -> [s EXCEPT !.ret = 0]

write_byte(s, address, byte) ==
    IF ~Running(s) THEN s
    ELSE LET device == resolve_bus_address(address)
         IN  CASE device.kind = "HRam" -> Ram_write(s, "h_ram", device.address, byte)
               [] device.kind = "OamRam" -> Ram_write(s, "oam_ram", device.address, byte)
               [] device.kind = "MirrorRam" ->
                      Ram_write(s, "mirror_ram", device.address, byte)
               [] device.kind = "WorkingRam" ->
                      Ram_write(s, "working_ram", device.address, byte)
               [] device.kind = "VideoRam" ->
                      Ram_write(s, "video_ram", device.address, byte)
               [] device.kind = "Cartridge" -> Cartridge_write(s, device.address, byte)
               [] device.kind = "Gpu" ->
                      Unlock(Gpu_write(Lock(s, "gpu"), device.address, byte), "gpu")
               [] device.kind \in {"Timer", "P1", "DIV", "IF"} ->
                      Panic(s, "not yet implemented")
               [] device.kind = "Unimplement" -> s

\* `address + 1` is a u16 addition
\* Bus::write_word storing the upper byte first
write_word_upper_first(s, address, word) ==
    LET upper == split_word(word)[1]
        lower == split_word(word)[2]
        first == write_byte(s, address, upper)
        added == Overflow(first, address + 1 > 65535, "attempt to add with overflow")
    IN  write_byte(added, (address + 1) % 65536, lower)

write_word(s, address, word) ==
    LET upper == split_word(word)[1]
        lower == split_word(word)[2]
        first == write_byte(s, address, lower)
        added == Overflow(first, address + 1 > 65535, "attempt to add with overflow")
    IN  write_byte(added, (address + 1) % 65536, upper)

-----------------------------------------------------------------------------
(* gpu.rs: Gpu::step and the background fetch *)

get_bg_tilemap_addr(g) == IF BitAnd(g.lcdc, 8) = 8 THEN TILEMAP1 ELSE TILEMAP0

get_window_tilemap_affr(g) == IF BitAnd(g.lcdc, 64) = 64 THEN TILEMAP1 ELSE TILEMAP0

get_tile_data_addr == \h8800

\* s.ret receives the byte read
read_bus_byte(s, addr) ==
    Unlock(read_byte(Lock(Gpu_bus(s), "bus"), addr), "bus")

\* let addr in get_tile_id, before the u16 sum wraps: tile_y and line_offset
\* are usize values cast to u16
get_tile_id_addr(tile_y, line_offset, offset_addr) ==
    (tile_y % 65536) + (line_offset % 65536) + offset_addr

get_tile_id(s, tile_y, line_offset, offset_addr) ==
    LET sum == get_tile_id_addr(tile_y, line_offset, offset_addr)
        added == Overflow(s, sum > 65535, "attempt to add with overflow")
    IN  Unlock(read_byte(Lock(Gpu_bus(added), "bus"), sum % 65536), "bus")

\* let base in get_bg_palette_id, before the u16 sum wraps: the product
\* (tile_id + 128) * 0x10 is made in u8 and then widened
get_bg_palette_id_base(tile_id, y) ==
    get_tile_data_addr + ((((tile_id + 128) % 256) * 16) % 256)
        + ((y * 2) % 65536)

\* The palette id the function returns is dropped by its only caller; what is
\* left of the call is the two bus reads and the arithmetic that may abort
\* (the mask 0x01 << (7 - x) subtracts x from 7 as usize values).
get_bg_palette_id(s, tile_id, x, y) ==
    LET plus == Overflow(s, tile_id + 128 > 255, "attempt to add with overflow")
        times == Overflow(plus, ((tile_id + 128) % 256) * 16 > 255,
                          "attempt to multiply with overflow")
        sum == get_bg_palette_id_base(tile_id, y)
        based == Overflow(times, sum > 65535, "attempt to add with overflow")
        base == sum % 65536
        l1 == read_bus_byte(based, base)
        next == Overflow(l1, base + 1 > 65535, "attempt to add with overflow")
        l2 == read_bus_byte(next, (base + 1) % 65536)
    IN  Overflow(l2, x > 7, "attempt to subtract with overflow")

\* One pass of the loop body of build_gb_tile for column x, up to its todo!()
tile_y(g) == (((g.ly + g.scroll_y) % 256) \div 8) * 32

\* tile_x without the reduction to the 32 columns of the tilemap
tile_x_unwrapped(g, x) == (x + g.scroll_x) \div 8

tile_x(g, x) == ((x + g.scroll_x) \div 8) % 32

build_gb_tile_column(s, x) ==
    LET g == s.gpu
        tiled == get_tile_id(s, tile_y(g), tile_x(g, x), get_bg_tilemap_addr(g))
        offset == (g.scroll_x % 8) + x
        addr == (g.ly + g.scroll_y) % 8
        paletted == get_bg_palette_id(tiled, tiled.ret, offset, addr)
    IN  Panic(paletted, "not yet implemented")

RECURSIVE build_gb_tile_from(_, _)
build_gb_tile_from(s, x) ==
    IF ~Running(s) \/ x >= SCREEN_WIDTH THEN s
    ELSE build_gb_tile_from(build_gb_tile_column(s, x), x + 1)

build_gb_tile(s) == build_gb_tile_from(s, 0)

build_sprites(s) == s

\* Gpu::step ending the line one step late: cycles <= CYCLE_PER_LINE
Gpu_step_late(s) ==
    IF ~Running(s) THEN s
    ELSE IF ~s.gpu.has_bus THEN Panic(s, "hogehoge")
    ELSE LET counted == [s EXCEPT !.gpu.cycles = @ + 4]
         IN  IF counted.gpu.cycles <= CYCLE_PER_LINE THEN counted
             ELSE LET built ==
                          IF counted.gpu.ly < 144 THEN build_gb_tile(counted)
                          ELSE IF counted.gpu.ly = 144 THEN build_sprites(counted)
                          ELSE IF counted.gpu.ly >= 144
                               THEN [counted EXCEPT !.gpu.ly = 0]
                          ELSE counted
                  IN  IF ~Running(built) THEN built
                      ELSE [built EXCEPT !.gpu.ly = @ + 1,
                                         !.gpu.cycles = @ - CYCLE_PER_LINE]

Gpu_step(s) ==
    IF ~Running(s) THEN s
    ELSE IF ~s.gpu.has_bus THEN Panic(s, "hogehoge")
    ELSE LET counted == [s EXCEPT !.gpu.cycles = @ + 4]
         IN  IF counted.gpu.cycles < CYCLE_PER_LINE THEN counted
             ELSE LET built ==
                          IF counted.gpu.ly < 144 THEN build_gb_tile(counted)
                          ELSE IF counted.gpu.ly = 144 THEN build_sprites(counted)
                          ELSE IF counted.gpu.ly >= 144
                               THEN [counted EXCEPT !.gpu.ly = 0]
                          ELSE counted
                  IN  IF ~Running(built) THEN built
                      ELSE [built EXCEPT !.gpu.ly = @ + 1,
                                         !.gpu.cycles = @ - CYCLE_PER_LINE]

-----------------------------------------------------------------------------
(* cpu.rs: registers, flags, construction, bus access *)

INIT_PC == 256
INIT_SP == 65534

FlagRegister_from_byte(byte) ==
    [z |-> Shr(byte, 6) = 1, n |-> Shr(byte, 5) = 1,
     h |-> Shr(byte, 4) = 1, c |-> Shr(byte, 3) = 1]

Cpu_new ==
    [pc |-> INIT_PC, sp |-> INIT_SP, halted |-> FALSE,
     registers |-> [a |-> \h11, f |-> FlagRegister_from_byte(\h80),
                    b |-> \h00, c |-> \h00, d |-> \hFF, e |-> \h56,
                    h |-> \h00, l |-> \h0D]]

\* TargetRegister is the name of the field: "a", "b", "c", "d", "e", "h", "l"
Registers_read(s, target) == s.registers[target]

Registers_write(s, target, half_word) ==
    IF ~Running(s) THEN s ELSE [s EXCEPT !.registers[target] = half_word]

set_flag(s, flag, value) ==
    IF ~Running(s) THEN s ELSE [s EXCEPT !.registers.f[flag] = value]

bus_read_byte(s, address) == Unlock(read_byte(Lock(s, "bus"), address), "bus")

bus_write_byte(s, address, byte) ==
    Unlock(write_byte(Lock(s, "bus"), address, byte), "bus")

bus_write_word(s, address, word) ==
    Unlock(write_word(Lock(s, "bus"), address, word), "bus")

\* s.ret receives the opcode
fetch(s) ==
    LET read == bus_read_byte(s, s.pc)
        added == Overflow(read, read.pc + 1 > 65535, "attempt to add with overflow")
    IN  IF ~Running(added) THEN added
        ELSE [added EXCEPT !.pc = (@ + 1) % 65536]

\* s.operands receives the bytes fetched
RECURSIVE fetch_operands_into(_, _)
fetch_operands_into(s, length_in_bytes) ==
    IF ~Running(s) \/ length_in_bytes = 0 THEN s
    ELSE LET f == fetch(s)
         IN  IF ~Running(f) THEN f
             ELSE fetch_operands_into(
                      [f EXCEPT !.operands = Append(@, f.ret)], length_in_bytes - 1)

\* Cpu::fetch_operands collecting the bytes last fetched first
fetch_operands_reversed(s, length_in_bytes) ==
    IF ~Running(s) THEN s
    ELSE LET fetched == fetch_operands_into([s EXCEPT !.operands = <<>>],
                                            length_in_bytes)
         IN  IF ~Running(fetched) THEN fetched
             ELSE [fetched EXCEPT !.operands =
                      [i \in 1..Len(@) |-> @[Len(@) + 1 - i]]]

fetch_operands(s, length_in_bytes) ==
    IF ~Running(s) THEN s
    ELSE fetch_operands_into([s EXCEPT !.operands = <<>>], length_in_bytes)

read_hl(s) == join_half_words(Registers_read(s, "h"), Registers_read(s, "l"))

set_hl(s, word) ==
    Registers_write(Registers_write(s, "h", split_word(word)[1]),
                    "l", split_word(word)[2])

\* sp -= 1, then the write at sp
push(s, half_word) ==
    LET under == Overflow(s, s.sp = 0, "attempt to subtract with overflow")
    IN  IF ~Running(under) THEN under
        ELSE LET moved == [under EXCEPT !.sp = (@ - 1) % 65536]
             IN  bus_write_byte(moved, moved.sp, half_word)

\* the read at sp, then sp += 1; s.ret receives the byte
pop(s) ==
    LET read == bus_read_byte(s, s.sp)
        over == Overflow(read, read.sp + 1 > 65535, "attempt to add with overflow")
    IN  IF ~Running(over) THEN over
        ELSE [over EXCEPT !.sp = (@ + 1) % 65536]

-----------------------------------------------------------------------------
(* cpu.rs: the instructions *)

\* Cpu::ldn_u16 taking the operands in the order they were fetched
ldn_u16_in_fetch_order(s, reg1, reg2) ==
    IF ~Running(s) THEN s
    ELSE Registers_write(Registers_write(s, reg1, s.operands[1]), reg2, s.operands[2])

ldn_u16(s, reg1, reg2) ==
    IF ~Running(s) THEN s
    ELSE Registers_write(Registers_write(s, reg1, s.operands[2]), reg2, s.operands[1])

ldn_u8(s, reg) ==
    IF ~Running(s) THEN s ELSE Registers_write(s, reg, s.operands[1])

ldn_a(s) ==
    IF ~Running(s) THEN s
    ELSE bus_write_byte(s, \hFF00 + s.operands[1], Registers_read(s, "a"))

ldu8_a(s) ==
    IF ~Running(s) THEN s
    ELSE LET read == bus_read_byte(s, \hFF00 + s.operands[1])
         IN  Registers_write(read, "a", read.ret)

ldc_a(s) ==
    bus_write_byte(s, \hFF00 + Registers_read(s, "c"), Registers_read(s, "a"))

lda_c(s) ==
    LET read == bus_read_byte(s, \hFF00 + Registers_read(s, "c"))
    IN  Registers_write(read, "a", read.ret)

rlca(s) ==
    LET byte == Shl8(Registers_read(s, "a"), 1)
        top == BitAnd(byte, \h80) = \h80
        shifted == IF top THEN BitXor(Shl8(byte, 1), 1) ELSE Shl8(byte, 1)
        carried == set_flag(s, "c", top)
        zeroed == IF shifted = 0 THEN set_flag(carried, "z", TRUE) ELSE carried
    IN  Registers_write(set_flag(set_flag(zeroed, "n", FALSE), "h", FALSE),
                        "a", shifted)

rrca(s) ==
    LET byte == Shl8(Registers_read(s, "a"), 1)
        low == BitAnd(byte, 1) = 1
        shifted == IF low THEN BitXor(Shr(byte, 1), \h80) ELSE Shr(byte, 1)
        carried == set_flag(s, "c", low)
        zeroed == IF shifted = 0 THEN set_flag(carried, "z", TRUE) ELSE carried
    IN  Registers_write(set_flag(set_flag(zeroed, "n", FALSE), "h", FALSE),
                        "a", shifted)

ldrr(s, dest_reg, source_reg) ==
    Registers_write(s, dest_reg, Registers_read(s, source_reg))

ldrr_r(s, upper_reg, lower_reg, byte_reg) ==
    bus_write_byte(s,
        join_half_words(Registers_read(s, upper_reg), Registers_read(s, lower_reg)),
        Registers_read(s, byte_reg))

ldr_rr(s, dest_reg, upper_reg, lower_reg) ==
    LET read == bus_read_byte(s,
            join_half_words(Registers_read(s, upper_reg), Registers_read(s, lower_reg)))
    IN  Registers_write(read, dest_reg, read.ret)

ldrr_u8(s, upper_reg, lower_reg) ==
    IF ~Running(s) THEN s
    ELSE bus_write_byte(s,
             join_half_words(Registers_read(s, upper_reg), Registers_read(s, lower_reg)),
             s.operands[1])

inc_u16(s, reg1, reg2) ==
    LET word == join_half_words(Registers_read(s, reg1), Registers_read(s, reg2))
        over == Overflow(s, word + 1 > 65535, "attempt to add with overflow")
        added == (word + 1) % 65536
    IN  Registers_write(Registers_write(over, reg1, split_word(added)[1]),
                        reg2, split_word(added)[2])

dec_u16(s, reg1, reg2) ==
    LET word == join_half_words(Registers_read(s, reg1), Registers_read(s, reg2))
        under == Overflow(s, word = 0, "attempt to subtract with overflow")
        subbed == (word - 1) % 65536
    IN  Registers_write(Registers_write(under, reg1, split_word(subbed)[1]),
                        reg2, split_word(subbed)[2])

\* s.ret receives the incremented byte
inc(s, byte) ==
    LET over == Overflow(s, byte + 1 > 255, "attempt to add with overflow")
        incremented == (byte + 1) % 256
        n == set_flag(over, "n", FALSE)
        z == set_flag(n, "z", incremented = 0)
        h == set_flag(z, "h", BitAnd(byte, \h10) # \h10
                              /\ BitAnd(incremented, \h10) = \h10)
    IN  IF ~Running(h) THEN h ELSE [h EXCEPT !.ret = incremented]

\* Cpu::dec with the half borrow tested the way Cpu::inc tests the half carry
dec_like_inc(s, byte) ==
    LET decremented == (byte - 1) % 256
        n == set_flag(s, "n", TRUE)
        z == set_flag(n, "z", decremented = 0)
        h == set_flag(z, "h", BitAnd(byte, \h10) = \h10
                              /\ BitAnd(decremented, \h10) # \h10)
    IN  IF ~Running(h) THEN h ELSE [h EXCEPT !.ret = decremented]

\* s.ret receives the decremented byte
dec(s, byte) ==
    LET decremented == (byte - 1) % 256
        n == set_flag(s, "n", TRUE)
        z == set_flag(n, "z", decremented = 0)
        h == set_flag(z, "h",
                 BitAnd(BitXor(BitXor(decremented, 1), byte), \h10) = \h10)
    IN  IF ~Running(h) THEN h ELSE [h EXCEPT !.ret = decremented]

inc_u8(s, reg) ==
    LET incremented == inc(s, Registers_read(s, reg))
    IN  Registers_write(incremented, reg, incremented.ret)

dec_u8(s, reg) ==
    LET decremented == dec(s, Registers_read(s, reg))
    IN  Registers_write(decremented, reg, decremented.ret)

ldnn_sp(s) ==
    IF ~Running(s) THEN s
    ELSE bus_write_word(s, join_half_words(s.operands[2], s.operands[1]), s.sp)

\* s.ret receives the sum
add_words(s, a, b) ==
    LET added == (a + b) % 65536
        n == set_flag(s, "n", FALSE)
        c == set_flag(n, "c", a + b > 65535)
        z == set_flag(c, "z", added = 0)
        h == set_flag(z, "h",
                 BitAnd(BitXor(BitXor(added, a), b), \h1000) = \h1000)
    IN  IF ~Running(h) THEN h ELSE [h EXCEPT !.ret = added]

addhl_rr(s, upper_reg, lower_reg) ==
    LET hl == read_hl(s)
        rr == join_half_words(Registers_read(s, upper_reg),
                              Registers_read(s, lower_reg))
        result == add_words(s, hl, rr)
    IN  set_hl(result, result.ret)

ldsp_u16(s) ==
    IF ~Running(s) THEN s
    ELSE [s EXCEPT !.sp = join_half_words(s.operands[2], s.operands[1])]

jp_u16(s) ==
    IF ~Running(s) THEN s
    ELSE [s EXCEPT !.pc = join_half_words(s.operands[2], s.operands[1])]

\* Cpu::cp_u8 comparing the whole bytes for the half borrow
cp_u8_without_mask(s) ==
    IF ~Running(s) THEN s
    ELSE LET value == s.operands[1]
             a == Registers_read(s, "a")
             n == set_flag(s, "n", TRUE)
             h == set_flag(n, "h", a < value)
             c == set_flag(h, "c", a < value)
         IN  set_flag(c, "z", value = a)

cp_u8(s) ==
    IF ~Running(s) THEN s
    ELSE LET value == s.operands[1]
             a == Registers_read(s, "a")
             n == set_flag(s, "n", TRUE)
             h == set_flag(n, "h", BitAnd(a, 15) < BitAnd(value, 15))
             c == set_flag(h, "c", a < value)
         IN  set_flag(c, "z", value = a)

\* n < 0: pc -= -n as u16, where -n is an i8 negation (it overflows for -128,
\* and unchecked leaves -128, which the cast turns into 0xFF80);
\* otherwise pc += n as u16.
jr_i8(s) ==
    IF ~Running(s) THEN s
    ELSE LET n == AsI8(s.operands[1])
         IN  IF n < 0
             THEN LET negated == Overflow(s, n = -128, "attempt to negate with overflow")
                      k == AsU16(IF n = -128 THEN -128 ELSE -n)
                      under == Overflow(negated, s.pc < k,
                                        "attempt to subtract with overflow")
                  IN  IF ~Running(under) THEN under
                      ELSE [under EXCEPT !.pc = (@ - k) % 65536]
             ELSE LET over == Overflow(s, s.pc + n > 65535,
                                       "attempt to add with overflow")
                  IN  IF ~Running(over) THEN over
                      ELSE [over EXCEPT !.pc = (@ + n) % 65536]

jrcc_i8(s, flag, is_set) ==
    IF ~Running(s) THEN s
    ELSE LET n == AsI8(s.operands[1])
         IN  IF flag # is_set THEN s
             ELSE IF n < 0
             THEN LET negated == Overflow(s, n = -128, "attempt to negate with overflow")
                      k == AsU16(IF n = -128 THEN -128 ELSE -n)
                      under == Overflow(negated, s.pc < k,
                                        "attempt to subtract with overflow")
                  IN  IF ~Running(under) THEN under
                      ELSE [under EXCEPT !.pc = (@ - k) % 65536]
             ELSE LET over == Overflow(s, s.pc + n > 65535,
                                       "attempt to add with overflow")
                  IN  IF ~Running(over) THEN over
                      ELSE [over EXCEPT !.pc = (@ + n) % 65536]

ld_inc_hl_a(s) ==
    LET addr == read_hl(s)
        wrote == bus_write_byte(s, addr, Registers_read(s, "a"))
        over == Overflow(wrote, addr + 1 > 65535, "attempt to add with overflow")
    IN  set_hl(over, (addr + 1) % 65536)

ld_dec_hl_a(s) ==
    LET addr == read_hl(s)
        wrote == bus_write_byte(s, addr, Registers_read(s, "a"))
        under == Overflow(wrote, addr = 0, "attempt to subtract with overflow")
    IN  set_hl(under, (addr - 1) % 65536)

ld_inc_a_hl(s) ==
    LET addr == read_hl(s)
        read == bus_read_byte(s, addr)
        loaded == Registers_write(read, "a", read.ret)
        over == Overflow(loaded, addr + 1 > 65535, "attempt to add with overflow")
    IN  set_hl(over, (addr + 1) % 65536)

ld_dec_a_hl(s) ==
    LET addr == read_hl(s)
        read == bus_read_byte(s, addr)
        loaded == Registers_write(read, "a", read.ret)
        under == Overflow(loaded, addr = 0, "attempt to subtract with overflow")
    IN  set_hl(under, (addr - 1) % 65536)

\* s.ret receives a ^ b
xor(s, a, b) ==
    LET bit == BitXor(a, b)
        h == set_flag(s, "h", FALSE)
        n == set_flag(h, "n", FALSE)
        c == set_flag(n, "c", FALSE)
        z == set_flag(c, "z", bit = 0)
    IN  IF ~Running(z) THEN z ELSE [z EXCEPT !.ret = bit]

xora_r(s, reg) ==
    LET x == xor(s, Registers_read(s, reg), Registers_read(s, "a"))
    IN  Registers_write(x, "a", x.ret)

xora_u16(s, addr) ==
    LET read == bus_read_byte(s, addr)
        x == xor(read, Registers_read(read, "a"), read.ret)
    IN  Registers_write(x, "a", x.ret)

\* (upper, lower) = (self.pop(), self.pop()): the first byte popped is upper
ret(s) ==
    LET first == pop(s)
        second == pop(first)
    IN  IF ~Running(second) THEN second
        ELSE [second EXCEPT !.pc = join_half_words(first.ret, second.ret)]

retcc(s, flag, is_set) == IF flag = is_set THEN ret(s) ELSE s

call_u16(s) ==
    IF ~Running(s) THEN s
    ELSE LET upper == Shr(s.pc, 8) % 256
             lower == BitAnd(s.pc, \hFF) % 256
             pushed == push(push(s, upper), lower)
         IN  IF ~Running(pushed) THEN pushed
             ELSE [pushed EXCEPT
                      !.pc = join_half_words(s.operands[2], s.operands[1])]

\* Cpu::callcc_u16 without the test of the flag
callcc_u16_always(s, flag, is_set) == call_u16(s)

callcc_u16(s, flag, is_set) == IF flag = is_set THEN call_u16(s) ELSE s

halt(s) == IF ~Running(s) THEN s ELSE [s EXCEPT !.halted = TRUE]

-----------------------------------------------------------------------------
(* cpu.rs: Cpu::execute, the match on the opcode, and Cpu::step *)

\* The arms  0xNN => self.ldrr(dest, source)  as <<opcode, dest, source>>
LdrrArms ==
    { <<\h40, "b", "b">>, <<\h41, "b", "c">>, <<\h42, "b", "d">>, <<\h43, "b", "e">>,
      <<\h44, "b", "h">>, <<\h45, "b", "l">>, <<\h47, "b", "a">>,
      <<\h48, "c", "b">>, <<\h49, "c", "c">>, <<\h4A, "c", "d">>, <<\h4B, "c", "e">>,
      <<\h4C, "c", "h">>, <<\h4D, "c", "l">>, <<\h4F, "c", "a">>,
      <<\h50, "d", "b">>, <<\h51, "d", "c">>, <<\h52, "d", "h">>, <<\h53, "d", "e">>,
      <<\h54, "d", "h">>, <<\h55, "d", "l">>, <<\h57, "d", "a">>,
      <<\h58, "e", "b">>, <<\h59, "e", "c">>, <<\h5A, "e", "h">>, <<\h5B, "e", "e">>,
      <<\h5C, "e", "h">>, <<\h5D, "e", "l">>, <<\h5F, "e", "a">>,
      <<\h60, "h", "b">>, <<\h61, "h", "c">>, <<\h62, "h", "d">>, <<\h63, "h", "e">>,
      <<\h64, "h", "h">>, <<\h65, "h", "l">>, <<\h67, "h", "a">>,
      <<\h68, "l", "b">>, <<\h69, "l", "c">>, <<\h6A, "l", "d">>, <<\h6B, "l", "e">>,
      <<\h6C, "l", "h">>, <<\h6D, "l", "l">>, <<\h6F, "l", "a">>,
      <<\h78, "a", "b">>, <<\h79, "a", "c">>, <<\h7A, "a", "d">>, <<\h7B, "a", "e">>,
      <<\h7C, "a", "h">>, <<\h7D, "a", "l">>, <<\h7F, "a", "a">> }

\* The arms  0xNN => self.ldr_rr(dest, upper, lower)
LdrRrArms ==
    { <<\h0A, "a", "b", "c">>, <<\h1A, "a", "d", "e">>,
      <<\h46, "b", "h", "l">>, <<\h4E, "c", "h", "l">>, <<\h56, "d", "h", "l">>,
      <<\h5E, "e", "h", "l">>, <<\h66, "h", "h", "l">>, <<\h6E, "l", "h", "l">>,
      <<\h7E, "a", "h", "l">> }

\* The arms  0xNN => self.ldrr_r(upper, lower, byte)
LdrrRArms ==
    { <<\h02, "b", "c", "a">>,
      <<\h70, "h", "l", "b">>, <<\h71, "h", "l", "c">>, <<\h72, "h", "l", "d">>,
      <<\h73, "h", "l", "e">>, <<\h74, "h", "l", "h">>, <<\h75, "h", "l", "l">>,
      <<\h77, "h", "l", "a">> }

\* The arms  0xNN => self.ldn_u8(reg, operands)
LdnU8Arms ==
    { <<\h06, "b">>, <<\h0E, "c">>, <<\h16, "d">>, <<\h1E, "e">>, <<\h26, "e">>,
      <<\h2E, "l">>, <<\h3E, "a">> }

\* The arms  0xNN => self.ldn_u16(reg1, reg2, operands)
LdnU16Arms == { <<\h01, "b", "c">>, <<\h11, "d", "e">>, <<\h21, "h", "l">> }

\* The arms  0xNN => self.xora_r(reg)
XoraRArms ==
    { <<\hA8, "b">>, <<\hA9, "c">>, <<\hAA, "d">>, <<\hAB, "e">>, <<\hAC, "h">>,
      <<\hAD, "l">>, <<\hAF, "a">> }

\* The conditional arms as <<opcode, flag tested, is_set>>
JrccArms == { <<\h20, "z", FALSE>>, <<\h28, "z", TRUE>>,
              <<\h30, "c", FALSE>>, <<\h38, "c", TRUE>> }
RetccArms == { <<\hC0, "z", FALSE>>, <<\hC8, "z", TRUE>>,
               <<\hD0, "c", FALSE>>, <<\hD8, "c", TRUE>> }
CallccArms == { <<\hC4, "z", FALSE>>, <<\hCC, "z", TRUE>>,
                <<\hD4, "c", FALSE>>, <<\hDC, "c", TRUE>> }

Arm(arms, opcode) == CHOOSE arm \in arms : arm[1] = opcode
HasArm(arms, opcode) == \E arm \in arms : arm[1] = opcode

\* Every opcode not listed here is an arm  0xNN => todo!()
execute(s, opcode) ==
    IF ~Running(s) THEN s
    ELSE CASE opcode = \h00 -> s
           [] HasArm(LdnU16Arms, opcode) ->
                  LET arm == Arm(LdnU16Arms, opcode)
                  IN  ldn_u16(fetch_operands(s, 2), arm[2], arm[3])
           [] HasArm(LdrrRArms, opcode) ->
                  LET arm == Arm(LdrrRArms, opcode)
                  IN  ldrr_r(s, arm[2], arm[3], arm[4])
           [] opcode = \h03 -> inc_u16(s, "b", "c")
           [] opcode = \h04 -> inc_u8(s, "b")
           [] opcode = \h05 -> dec_u8(s, "b")
           [] HasArm(LdnU8Arms, opcode) ->
                  ldn_u8(fetch_operands(s, 1), Arm(LdnU8Arms, opcode)[2])
           [] opcode = \h07 -> rlca(s)
           [] opcode = \h08 -> ldnn_sp(fetch_operands(s, 2))
           [] opcode = \h09 -> addhl_rr(s, "b", "c")
           [] HasArm(LdrRrArms, opcode) ->
                  LET arm == Arm(LdrRrArms, opcode)
                  IN  ldr_rr(s, arm[2], arm[3], arm[4])
           [] opcode = \h0B -> dec_u16(s, "b", "c")
           [] opcode = \h0C -> inc_u8(s, "c")
           [] opcode = \h0D -> dec_u8(s, "c")
           [] opcode = \h0F -> rrca(s)
           [] opcode = \h18 -> jr_i8(fetch_operands(s, 1))
           [] HasArm(JrccArms, opcode) ->
                  LET arm == Arm(JrccArms, opcode)
                  IN  jrcc_i8(fetch_operands(s, 1), s.registers.f[arm[2]], arm[3])
           [] opcode = \h22 -> ld_inc_hl_a(s)
           [] opcode = \h2A -> ld_inc_a_hl(s)
           [] opcode = \h31 -> ldsp_u16(fetch_operands(s, 2))
           [] opcode = \h32 -> ld_dec_hl_a(s)
           [] opcode = \h36 -> ldrr_u8(fetch_operands(s, 1), "h", "l")
           [] opcode = \h3A -> ld_dec_a_hl(s)
           [] HasArm(LdrrArms, opcode) ->
                  LET arm == Arm(LdrrArms, opcode)
                  IN  ldrr(s, arm[2], arm[3])
           [] opcode = \h76 -> halt(s)
           [] HasArm(XoraRArms, opcode) -> xora_r(s, Arm(XoraRArms, opcode)[2])
           [] opcode = \hAE -> xora_u16(s, read_hl(s))
           [] HasArm(RetccArms, opcode) ->
                  LET arm == Arm(RetccArms, opcode)
                  IN  retcc(s, s.registers.f[arm[2]], arm[3])
           [] opcode = \hC3 -> jp_u16(fetch_operands(s, 2))
           [] HasArm(CallccArms, opcode) ->
                  LET arm == Arm(CallccArms, opcode)
                  IN  callcc_u16(fetch_operands(s, 2), s.registers.f[arm[2]], arm[3])
           [] opcode = \hC9 -> ret(s)
           [] opcode = \hCD -> call_u16(fetch_operands(s, 2))
           [] opcode = \hE0 -> ldn_a(fetch_operands(s, 1))
           [] opcode = \hE2 -> ldc_a(s)
           [] opcode = \hF0 -> ldu8_a(fetch_operands(s, 1))
           [] opcode = \hF2 -> lda_c(s)
           [] opcode = \hF3 -> s
           [] opcode = \hFE -> cp_u8(fetch_operands(s, 1))
           [] OTHER -> Panic(s, "not yet implemented")

\* Cpu::step without the test of self.halted
Cpu_step_ignoring_halted(s) ==
    IF ~Running(s) THEN s
    ELSE LET fetched == fetch(s)
         IN  execute(fetched, fetched.ret)

Cpu_step(s) ==
    IF ~Running(s) \/ s.halted THEN s
    ELSE LET fetched == fetch(s)
         IN  execute(fetched, fetched.ret)

-----------------------------------------------------------------------------
(* emulator.rs: Emulator::from_rom_byte, Emulator::new *)

Cartridge_new(data) == data

Bus_new(cartridge, video_ram, h_ram, oam_ram, mirror_ram, working_ram) ==
    [h_ram |-> h_ram, oam_ram |-> oam_ram, working_ram |-> working_ram,
     mirror_ram |-> mirror_ram, cartridge |-> cartridge, video_ram |-> video_ram]

\* The Bus and the Gpu that from_rom_byte builds from the bytes of a ROM file
from_rom_byte(bytes) ==
    [bus |-> Bus_new(Cartridge_new(bytes), Ram_with_size(\h2000),
                     Ram_with_size(\h2000), Ram_with_size(\h2000),
                     Ram_with_size(\h2000), Ram_with_size(\h2000)),
     gpu |-> Gpu_set_bus(Gpu_new(1024, FALSE))]

-----------------------------------------------------------------------------
(* ROM files.  A file is 32 KiB of zeroes (NOP) with a few bytes of code. *)

RomSize == 32 * 1024

Lo(word) == word % 256
Hi(word) == word \div 256

Bytes(org, seq) == [a \in org..(org + Len(seq) - 1) |-> seq[a - org + 1]]

Rom(code) ==
    [size |-> RomSize,
     data |-> [a \in {x \in DOMAIN code : code[x] # 0} |-> code[a]]]

\* Execution starts at 0x0100: a JP to the code under test, unless it is there
Entry(p) == IF p = INIT_PC THEN <<>> ELSE Bytes(INIT_PC, <<\hC3, Lo(p), Hi(p)>>)

NopRom == Rom(<<>>)

\* CALL t at p, RET at t
CallRetRom(p, t) ==
    Rom(Entry(p) @@ Bytes(p, <<\hCD, Lo(t), Hi(t)>>) @@ Bytes(t, <<\hC9>>))

\* JR n at p
JrRom(p, n) == Rom(Entry(p) @@ Bytes(p, <<\h18, n>>))

\* LD A,b ; LD (FF00+k),A
HighStoreRom(k, b) == Rom(Bytes(INIT_PC, <<\h3E, b, \hE0, k>>))

\* LD A,b ; LD (FFFF),A ; LD (FF0F),A ; HALT: the program enables the
\* interrupts of b in IE, flags them in IF and halts
WakeRom(b) == Rom(Bytes(INIT_PC, <<\h3E, b, \hE0, \hFF, \hE0, \h0F, \h76>>))

\* LD BC,w1 ; LD DE,w2 ; PUSH BC ; PUSH DE ; POP HL ; POP BC
StackRom(w1, w2) ==
    Rom(Bytes(INIT_PC, <<\h01, Lo(w1), Hi(w1), \h11, Lo(w2), Hi(w2),
                         \hC5, \hD5, \hE1, \hC1>>))

\* LD r,v ; INC r or DEC r, for r = B (ld = 0x06) or C (ld = 0x0E); with carry,
\* LD A,0x40 ; RLCA come first and leave the flag C set
FlagRom(carry, ld, v, op) ==
    Rom(Bytes(INIT_PC, (IF carry THEN <<\h3E, \h40, \h07>> ELSE <<>>)
                       \o <<ld, v, op>>))

\* LD rr,w for rr = BC (0x01), DE (0x11), HL (0x21): the immediate's low byte
\* comes first
PairRom(op, w) == Rom(Bytes(INIT_PC, <<op, Lo(w), Hi(w)>>))

\* The opcode op at p, followed by the operand byte b
OpcodeRom(p, op, b) == Rom(Entry(p) @@ Bytes(p, <<op, b>>))

\* LD A,b ; LD (FFFF),A ; LD (FF0F),A ; EI ; NOP ; NOP: the program enables
\* the interrupts of b in IE, flags them in IF and sets IME
InterruptRom(b) ==
    Rom(Bytes(INIT_PC, <<\h3E, b, \hE0, \hFF, \hE0, \h0F, \hFB>>))

\* LD HL,hl ; LD BC,bc ; ADD HL,BC
AddHlRom(hl, bc) ==
    Rom(Bytes(INIT_PC, <<\h21, Lo(hl), Hi(hl), \h01, Lo(bc), Hi(bc), \h09>>))

\* LD A,a ; RLCA (0x07) or RRCA (0x0F)
RotateRom(a, op) == Rom(Bytes(INIT_PC, <<\h3E, a, op>>))

\* LD A,a ; CP A,x
CpRom(a, x) == Rom(Bytes(INIT_PC, <<\h3E, a, \hFE, x>>))

\* LD SP,w ; LD (a),SP
WordStoreRom(a, w) ==
    Rom(Bytes(INIT_PC, <<\h31, Lo(w), Hi(w), \h08, Lo(a), Hi(a)>>))

\* LD SP,0xD000 ; LD A,1 ; CP x ; the four JR cc,+1 each followed by a NOP ;
\* the four CALL cc, each to the instruction after it ; LD SP,0xD000 ; the two
\* RET cc on Z, the one not taken first ; and at 0x0000, where a RET taken
\* from the zeroes of work RAM leads, the two RET cc on C in the same way
CondRom(x) ==
    Rom(Bytes(INIT_PC,
              <<\h31, \h00, \hD0, \h3E, \h01, \hFE, x,
                \h20, \h01, \h00, \h28, \h01, \h00,
                \h30, \h01, \h00, \h38, \h01, \h00,
                \hC4, \h16, \h01, \hCC, \h19, \h01,
                \hD4, \h1C, \h01, \hDC, \h1F, \h01,
                \h31, \h00, \hD0>>
              \o (IF x = 1 THEN <<\hC0, \hC8>> ELSE <<\hC8, \hC0>>))
        @@ Bytes(0, IF x = 1 THEN <<\hD8, \hD0>> ELSE <<\hD0, \hD8>>))

\* Every implemented instruction that uses memory or an immediate, with the
\* register pairs and the operands of the LDH forms pointing into RAM, then
\* the arithmetic ones, NOP, DI and HALT
StraightRom(n) ==
    Rom(Bytes(INIT_PC,
              <<\h31, \h00, \hD0, \h21, \h80, \hC0, \h01, \h90, \hC0,
                \h11, \hA0, \hC0, \h3E, n,
                \h02, \h70, \h71, \h72, \h73, \h74, \h75, \h77, \h22, \h32,
                \h36, n, \hE0, \h85, \hE2, \h08, \h10, \hC0,
                \h0A, \h1A, \h2A, \h3A, \hF0, \h85, \hF2, \hAE, \h7E,
                \h46, \h4E, \h56, \h5E, \h6E, \h66,
                \h06, n, \h0E, \h10, \h16, n, \h1E, \h20, \h26, n, \h2E, \h30,
                \h03, \h04, \h05, \h0B, \h0C, \h0D, \h07, \h0F, \h09,
                \hA8, \hA9, \hAA, \hAB, \hAC, \hAD, \hAF, \hFE, n,
                \hF3, \h00, \h76>>))

\* LD B,1 ; LD C,2 ; LD D,3 ; LD E,4 ; LD HL,0x0506 ; LD A,7 ; then each
\* LD r,r' that is not the one at first, LD D,D and LD E,D before the others
MoveRom(first) ==
    Rom(Bytes(INIT_PC,
              <<\h06, \h01, \h0E, \h02, \h16, \h03, \h1E, \h04,
                \h21, \h06, \h05, \h3E, \h07, first, \h52, \h5A,
                \h40, \h41, \h42, \h43, \h44, \h45, \h47,
                \h48, \h49, \h4A, \h4B, \h4C, \h4D, \h4F,
                \h50, \h51, \h53, \h54, \h55, \h57,
                \h58, \h59, \h5B, \h5C, \h5D, \h5F,
                \h60, \h61, \h62, \h63, \h64, \h65, \h67,
                \h68, \h69, \h6A, \h6B, \h6C, \h6D, \h6F,
                \h78, \h79, \h7A, \h7B, \h7C, \h7D, \h7F, \h76>>))

\* LD BC,w ; LD HL,w ; op
CounterRom(op, w) ==
    Rom(Bytes(INIT_PC, <<\h01, Lo(w), Hi(w), \h21, Lo(w), Hi(w), op>>))

\* HALT at p
HaltRom(p) == Rom(Entry(p) @@ Bytes(p, <<\h76>>))

CallSites == {\h0150, \h0200, \h7000}
CallTargets == {\h2000, \h4321}
JumpSites == {\h0000, \h0150, \h7FF0}
JumpOffsets == {\h00, \h01, \h7F, \h80, \h81, \hFC, \hFE, \hFF}
StoreOffsets == {\h40, \h44, \h7F}
StoreBytes == {\h00, \h91, \hFF}
HaltSites == {\h0100, \h0150}
InterruptBits == {\h01, \h04, \h1F}
StackWords == {\h1234, \hABCD, \h00FF}
OpcodeSites == {\h0100, \h0150}
Opcodes == {\h10, \h80, \hCB, \hD3, \hFB, \hFF}
OperandBytes == {\h00, \h7C}
AddPairs == {<<\h0000, \h0000>>, <<\h0FFF, \h0001>>, <<\hFFFF, \h0001>>}
RotateValues == {\h01, \h80}
RotateOps == {\h07, \h0F}
CpPairs == {<<\h10, \h10>>, <<\h10, \h01>>, <<\h01, \h10>>, <<\hFF, \h00>>}
WordStores ==
    {<<\hC000, \h1234>>, <<\hDFFF, \hFF01>>, <<\h8000, \h00FF>>,
     <<\hFE9E, \hABCD>>, <<\hFFFE, \h1234>>}
CondOperands == {\h01, \h02}
StraightOperands == {\h5A, \hA5}

MoveFirst == {\h41, \h7C}
CounterCases ==
    {<<\h03, \hFFFF>>, <<\h0B, \h0000>>, <<\h22, \hFFFF>>, <<\h2A, \hFFFF>>,
     <<\h32, \h0000>>, <<\h3A, \h0000>>, <<\h22, \hC000>>}
PairOps == {\h01, \h11, \h21}
PairWords == {\h0001, \h00FF, \h0100, \h1234, \h8001, \hFFFF}
FlagValues == {\h00, \h01, \h0F, \h10, \h1F, \hFF}
FlagOps == {<<\h06, \h04>>, <<\h06, \h05>>, <<\h0E, \h0C>>, <<\h0E, \h0D>>}

Roms ==
    {NopRom}
    \cup {CallRetRom(p, t) : p \in CallSites, t \in CallTargets}
    \cup {JrRom(p, n) : p \in JumpSites, n \in JumpOffsets}
    \cup {HighStoreRom(k, b) : k \in StoreOffsets, b \in StoreBytes}
    \cup {HaltRom(p) : p \in HaltSites}
    \cup {WakeRom(b) : b \in InterruptBits}
    \cup {InterruptRom(b) : b \in InterruptBits}
    \cup {StackRom(w1, w2) : w1 \in StackWords, w2 \in StackWords}
    \cup {OpcodeRom(p, op, b) : p \in OpcodeSites, op \in Opcodes, b \in OperandBytes}
    \cup {AddHlRom(w[1], w[2]) : w \in AddPairs}
    \cup {RotateRom(a, op) : a \in RotateValues, op \in RotateOps}
    \cup {CpRom(w[1], w[2]) : w \in CpPairs}
    \cup {WordStoreRom(w[1], w[2]) : w \in WordStores}
    \cup {CondRom(x) : x \in CondOperands}
    \cup {StraightRom(n) : n \in StraightOperands}
    \cup {MoveRom(first) : first \in MoveFirst}
    \cup {CounterRom(c[1], c[2]) : c \in CounterCases}
    \cup {PairRom(op, w) : op \in PairOps, w \in PairWords}
    \cup {FlagRom(carry, o[1], v, o[2]) :
              carry \in BOOLEAN, o \in FlagOps, v \in FlagValues}

Builds == [overflow_checks : BOOLEAN, relock : {"deadlock", "panic"}]

-----------------------------------------------------------------------------
(* The state machine *)

Machine ==
    [registers |-> registers, pc |-> pc, sp |-> sp, halted |-> halted,
     bus |-> bus, gpu |-> gpu, held |-> held, status |-> status,
     relock |-> relock, ret |-> returned, build |-> build, operands |-> <<>>]

Becomes(t) ==
    /\ registers' = t.registers
    /\ pc' = t.pc
    /\ sp' = t.sp
    /\ halted' = t.halted
    /\ bus' = t.bus
    /\ gpu' = t.gpu
    /\ held' = t.held
    /\ status' = t.status
    /\ relock' = t.relock
    /\ returned' = t.ret
    /\ UNCHANGED <<build, image>>

Constructed(rom, b, position) ==
    /\ image = rom
    /\ build = b
    /\ bus = from_rom_byte(rom).bus
    /\ gpu = from_rom_byte(rom).gpu
    /\ registers = Cpu_new.registers
    /\ pc = Cpu_new.pc
    /\ sp = Cpu_new.sp
    /\ halted = Cpu_new.halted
    /\ held = {}
    /\ status = "running"
    /\ relock = "none"
    /\ returned = 0
    /\ turn = position
    /\ executed = <<>>
    /\ gpu_steps = 0
    /\ calls = <<>>

Init == \E rom \in Roms, b \in Builds : Constructed(rom, b, "cpu")

Last2(seq) == IF Len(seq) > 2 THEN SubSeq(seq, Len(seq) - 1, Len(seq)) ELSE seq

\* What the Cpu is about to execute: where, with which sp, and the opcode there
\* (-1 when the fetch itself aborts)
Beginning(s) ==
    [pc |-> s.pc, sp |-> s.sp,
     opcode |-> IF Running(fetch(s)) THEN fetch(s).ret ELSE -1]

\* Emulator::start, first half of the loop body: self.cpu.step().unwrap()
CpuStep ==
    /\ turn = "cpu"
    /\ status = "running"
    /\ Becomes(Cpu_step(Machine))
    /\ turn' = "gpu"
    /\ executed' = IF halted THEN executed
                   ELSE Last2(Append(executed, Beginning(Machine)))
    /\ UNCHANGED <<gpu_steps, calls>>

\* Emulator::start, second half: self.gpu.lock().unwrap(), gpu.step(); the
\* guard is dropped at the end of the loop body
GpuStep ==
    /\ turn = "gpu"
    /\ status = "running"
    /\ Becomes(Unlock(Gpu_step(Lock(Machine, "gpu")), "gpu"))
    /\ turn' = "cpu"
    /\ gpu_steps' = gpu_steps + 1
    /\ UNCHANGED <<executed, calls>>

Next == CpuStep \/ GpuStep

Spec == Init /\ [][Next]_vars

-----------------------------------------------------------------------------
(* The bus on its own: calls of Cpu::bus_read_byte and Cpu::bus_write_byte   *)
(* (both pub) with any address and byte, on a freshly constructed machine.  *)

MaxCalls == 2

BusRom == Rom(Bytes(0, <<\h31>>) @@ Bytes(\h7FFF, <<\h76>>))

BusAddresses ==
    {\h0000, \h7FFF, \h8000, \h9FFF, \hA000, \hC000, \hDDFF, \hE000, \hFDFF,
     \hFE00, \hFEA0, \hFEFF, \hFF00, \hFF0F, \hFF40, \hFF80, \hFFFF}

BusBytes == {\h5A, \hFF}

InitBus == \E rom \in {NopRom, BusRom}, b \in Builds : Constructed(rom, b, "api")

BusRead(a) ==
    /\ turn = "api"
    /\ status = "running"
    /\ Len(calls) < MaxCalls
    /\ Becomes(bus_read_byte(Machine, a))
    /\ calls' = Append(calls, [op |-> "read", address |-> a, byte |-> 0])
    /\ UNCHANGED <<turn, executed, gpu_steps>>

BusWrite(a, b) ==
    /\ turn = "api"
    /\ status = "running"
    /\ Len(calls) < MaxCalls
    /\ Becomes(bus_write_byte(Machine, a, b))
    /\ calls' = Append(calls, [op |-> "write", address |-> a, byte |-> b])
    /\ UNCHANGED <<turn, executed, gpu_steps>>

BusReads == \E a \in BusAddresses : BusRead(a)

BusWrites == \E a \in BusAddresses, b \in BusBytes : BusWrite(a, b)

NextBus == BusReads \/ BusWrites

SpecBus == InitBus /\ [][NextBus]_vars

-----------------------------------------------------------------------------
(* The claims *)

LastExecuted == executed[Len(executed)]
LastCall == calls[Len(calls)]

\* The byte of the cartridge at address a
CodeByte(a) == VecGet(bus.cartridge, a)

RamKinds == {"HRam", "OamRam", "MirrorRam", "WorkingRam", "VideoRam"}

\* The two bytes a CALL made with stack pointer p pushes are in RAM
StackInRam(p) ==
    /\ p >= 2
    /\ resolve_bus_address(p - 1).kind \in RamKinds
    /\ resolve_bus_address(p - 2).kind \in RamKinds

\* C1: CALL u16 (0xCD) at p with target t, followed by RET (0xC9) at t, with
\* the stack in RAM, leaves PC = p + 3 and SP as it was before the CALL.
C1_CallRetRoundTrip ==
    (/\ Len(executed) = 2
     /\ executed[1].opcode = \hCD
     /\ executed[2].opcode = \hC9
     /\ executed[2].pc = join_half_words(CodeByte(executed[1].pc + 2),
                                         CodeByte(executed[1].pc + 1))
     /\ StackInRam(executed[1].sp))
    => /\ status = "running"
       /\ pc = (executed[1].pc + 3) % 65536
       /\ sp = executed[1].sp

CallsPerLine == CYCLE_PER_LINE \div 4

\* C2: with 4 cycles per driver step, LY goes up by exactly 1 on every 114th
\* call of Gpu::step (every 456 cycles), on every scanline of the frame, and
\* does not change on any other call.
C2_ScanlineTiming ==
    [][gpu_steps' # gpu_steps =>
          IF gpu_steps' % CallsPerLine = 0
          THEN gpu.ly < 153 => gpu'.ly = gpu.ly + 1
          ELSE gpu'.ly = gpu.ly]_vars

\* C3: LY runs through 0, 1, ..., 153 and back to 0, one line per 456 cycles,
\* so that LY is the number of whole lines elapsed modulo 154 and is 0 again
\* exactly every 70224 cycles.
C3_FramePeriod ==
    gpu.ly = ((4 * gpu_steps) \div CYCLE_PER_LINE) % 154

\* C4: a CPU store to an address the bus routes to the Gpu completes and
\* returns to the driver, and on the way no mutex is requested while the same
\* call chain holds it.
C4_StoreToGpuReturns ==
    (/\ executed # <<>>
     /\ turn = "gpu"
     /\ LastExecuted.opcode = \hE0
     /\ resolve_bus_address(\hFF00 + CodeByte(LastExecuted.pc + 1)).kind = "Gpu")
    => /\ status = "running"
       /\ relock = "none"
       /\ held = {}

\* C5: on the ROM of NOPs the driver loop reaches no abort during the first
\* 1,000,000 cycles, PC advances and SP stays 0xFFFE.
C5_NopRomRuns ==
    (image = NopRom /\ 4 * gpu_steps <= 1000000)
    => /\ status = "running"
       /\ sp = INIT_SP
       /\ pc >= INIT_PC
       /\ (gpu_steps > 0 => pc > INIT_PC)

EchoSource(a) == Within(a, \hC000, \hDE00)

\* C6: for a in 0xC000..0xDDFF, a write of b at a followed by a read at
\* a + 0x2000 returns b, and a write of b at a + 0x2000 followed by a read at
\* a returns b.
C6_MemoryEcho ==
    (/\ Len(calls) >= 2
     /\ calls[Len(calls) - 1].op = "write"
     /\ LastCall.op = "read"
     /\ \/ /\ EchoSource(calls[Len(calls) - 1].address)
           /\ LastCall.address = calls[Len(calls) - 1].address + \h2000
        \/ /\ EchoSource(LastCall.address)
           /\ calls[Len(calls) - 1].address = LastCall.address + \h2000)
    => /\ status = "running"
       /\ returned = calls[Len(calls) - 1].byte

\* C7: after any sequence of bus writes to 0x0000..0x7FFF, every ROM address
\* still reads as it did in the ROM file.
C7_RomImmutable ==
    (\A i \in 1..Len(calls) :
        calls[i].op = "write" /\ Within(calls[i].address, \h0000, \h8000))
    => \A a \in (DOMAIN image.data) \cup (DOMAIN bus.cartridge.data) :
           VecGet(bus.cartridge, a) = VecGet(image, a)

\* An address of the unusable range, or of the I/O range with no device
Unmapped(a) ==
    \/ Within(a, \hFEA0, \hFF00)
    \/ Within(a, \hFF00, \hFF80) /\ resolve_bus_address(a).kind = "Unimplement"

\* C8: a bus read of an unmapped address returns 0xFF, and a bus write to one
\* is dropped: it changes no memory a later read could see.
C8_UnmappedAccess ==
    [][(calls' # calls /\ Unmapped(calls'[Len(calls')].address)) =>
          /\ status' = "running"
          /\ IF calls'[Len(calls')].op = "read"
             THEN returned' = \hFF
             ELSE bus' = bus /\ gpu' = gpu]_vars

\* C9: immediately after construction A=0x01, F=0xB0 (Z=1, N=0, H=1, C=1),
\* BC=0x0013, DE=0x00D8, HL=0x014D, SP=0xFFFE, PC=0x0100, halted=false.
C9_ResetState ==
    (executed = <<>> /\ gpu_steps = 0 /\ calls = <<>>)
    => /\ registers.a = \h01
       /\ registers.f = [z |-> TRUE, n |-> FALSE, h |-> TRUE, c |-> TRUE]
       /\ join_half_words(registers.b, registers.c) = \h0013
       /\ join_half_words(registers.d, registers.e) = \h00D8
       /\ join_half_words(registers.h, registers.l) = \h014D
       /\ sp = \hFFFE
       /\ pc = \h0100
       /\ halted = FALSE

\* C10: JR i8 (0x18) at p with offset byte n leaves
\* PC = (p + 2 + sign_extend(n)) mod 2^16, for every p and every n in
\* -128..127, without aborting.
C10_RelativeJump ==
    (/\ executed # <<>>
     /\ turn = "gpu"
     /\ LastExecuted.opcode = \h18)
    => /\ status = "running"
       /\ pc = (LastExecuted.pc + 2 + AsI8(CodeByte(LastExecuted.pc + 1))) % 65536

\* C11: executing HALT (0x76) sets halted; from then on every call of
\* Cpu::step leaves PC, SP, the registers, the memory and halted as they are,
\* and every call of Gpu::step by the driver leaves them as they are too and
\* adds 4 to the cycle counter of the Gpu (less one line when a line ends).
C11_HaltFreezesCpu ==
    [][/\ (turn = "cpu" /\ turn' = "gpu" /\ ~halted
            /\ Beginning(Machine).opcode = \h76 /\ status' = "running")
           => halted' /\ pc' = (pc + 1) % 65536
       /\ (halted /\ turn = "cpu" /\ turn' = "gpu")
           => /\ halted'
              /\ status' = "running"
              /\ <<pc', sp', registers', bus', gpu'>> = <<pc, sp, registers, bus, gpu>>
       /\ (halted /\ turn = "gpu" /\ turn' = "cpu")
           => /\ halted'
              /\ <<pc', sp', registers', bus'>> = <<pc, sp, registers, bus>>
              /\ \/ gpu'.cycles = gpu.cycles + 4
                 \/ gpu'.cycles = gpu.cycles + 4 - CYCLE_PER_LINE]_vars

\* HALT was executed, and the driver has since called Cpu::step and Gpu::step
\* several times
C11_Witness ==
    /\ halted
    /\ status = "running"
    /\ LastExecuted.opcode = \h76
    /\ pc = LastExecuted.pc + 1
    /\ gpu_steps >= Len(executed) + 3
    /\ gpu.cycles = 4 * gpu_steps

\* The program running is one that enables and flags an interrupt, then halts
WakeRequested == \E b \in InterruptBits : image = WakeRom(b)

\* C12: a halted Cpu with an interrupt both enabled in IE and flagged in IF
\* (the program stored the same non-zero bits to 0xFFFF and to 0xFF0F before
\* HALT) leaves the halted state on a later step: a run of such a program
\* never ends with the Cpu still halted.
C12_HaltExit == (WakeRequested /\ status # "running") => ~halted

\* once halted, the Cpu of the code stays halted
HaltedForGood == [][halted => halted']_vars

\* C13: PUSH rr1 then PUSH rr2 followed by POP, POP returns rr2, then rr1, and
\* restores SP: the program LD BC,w1; LD DE,w2; PUSH BC; PUSH DE; POP HL;
\* POP BC runs its six instructions and ends with HL = w2, BC = w1 and SP as
\* it began.
C13_StackLifo ==
    \A w1 \in StackWords, w2 \in StackWords :
        image = StackRom(w1, w2) =>
            /\ gpu_steps <= 6 => status = "running"
            /\ (gpu_steps = 6 /\ turn = "cpu") =>
                   /\ join_half_words(registers.h, registers.l) = w2
                   /\ join_half_words(registers.b, registers.c) = w1
                   /\ sp = INIT_SP

\* At byte level Cpu::push and Cpu::pop of the code are last in, first out
ByteLifo ==
    (gpu_steps = 0 /\ turn = "cpu") =>
        \A b1 \in {\h00, \h5A}, b2 \in {\h01, \hFF} :
            LET pushed == push(push(Machine, b1), b2)
                first == pop(pushed)
                second == pop(first)
            IN  /\ pushed.sp = sp - 2
                /\ first.ret = b2
                /\ second.ret = b1
                /\ second.sp = sp

\* The driver is about to have the Cpu execute opcode op
About(op) ==
    turn = "cpu" /\ status = "running" /\ ~halted /\ Beginning(Machine).opcode = op

\* The machine as it is, with v in register r and the flag C as given
With(r, v, carry) ==
    [Machine EXCEPT !.registers[r] = v, !.registers.f.c = carry]

DecFlags(v, carry) ==
    [z |-> (v - 1) % 256 = 0, n |-> TRUE, h |-> v % 16 = 0, c |-> carry]

\* C14: DEC r (0x05 DEC B, 0x0D DEC C) stores (v - 1) mod 256 in r and sets
\* Z = (result = 0), N = 1, H = ((v & 0x0F) = 0), leaving C as it was: in the
\* step that executes it, and for every v in 0..255 and either C in its place.
C14_DecFlags ==
    [][\A o \in {<<\h05, "b">>, <<\h0D, "c">>} :
          (About(o[1]) /\ turn' = "gpu") =>
              /\ status' = "running"
              /\ pc' = (pc + 1) % 65536
              /\ registers'[o[2]] = (registers[o[2]] - 1) % 256
              /\ registers'.f = DecFlags(registers[o[2]], registers.f.c)
              /\ \A v \in Byte, carry \in BOOLEAN :
                     LET after == dec_u8(With(o[2], v, carry), o[2])
                     IN  /\ Running(after)
                         /\ after.registers[o[2]] = (v - 1) % 256
                         /\ after.registers.f = DecFlags(v, carry)]_vars

\* DEC B has just turned 0x10 into 0x0F with the flag C set before and after
C14_Witness ==
    /\ turn = "gpu"
    /\ status = "running"
    /\ Len(executed) = 2
    /\ executed[1].opcode = \h06
    /\ CodeByte(executed[1].pc + 1) = \h10
    /\ executed[2].opcode = \h05
    /\ pc = executed[2].pc + 1
    /\ registers.b = \h0F
    /\ registers.f = [z |-> FALSE, n |-> TRUE, h |-> TRUE, c |-> TRUE]

IncFlags(v, carry) ==
    [z |-> (v + 1) % 256 = 0, n |-> FALSE, h |-> (v % 16) + 1 > 15, c |-> carry]

\* C15: INC r (0x04 INC B, 0x0C INC C) stores (v + 1) mod 256 in r without
\* aborting and sets Z = (result = 0), N = 0, H = ((v & 0x0F) + 1 > 0x0F),
\* leaving C as it was.
C15_IncFlags ==
    [][\A o \in {<<\h04, "b">>, <<\h0C, "c">>} :
          (About(o[1]) /\ turn' = "gpu") =>
              /\ status' = "running"
              /\ pc' = (pc + 1) % 65536
              /\ registers'[o[2]] = (registers[o[2]] + 1) % 256
              /\ registers'.f = IncFlags(registers[o[2]], registers.f.c)]_vars

\* join_half_words and split_word undo each other on every word and on every
\* pair of bytes
HalfWordsRoundTrip ==
    /\ \A w \in 0..65535 :
           join_half_words(split_word(w)[1], split_word(w)[2]) = w
    /\ \A u \in Byte, l \in Byte :
           split_word(join_half_words(u, l)) = <<u, l>>

\* C16: LD rr,u16 for rr in BC, DE, HL, with the low byte of w first in the
\* code, leaves the pair reading (high << 8) | low = w; and
\* join_half_words(split_word(w)) = w for every w,
\* split_word(join_half_words(u, l)) = (u, l) for all bytes u, l.
C16_PairRoundTrip ==
    [][\A arm \in LdnU16Arms :
          (About(arm[1]) /\ turn' = "gpu") =>
              LET w == CodeByte(pc + 1) + 256 * CodeByte(pc + 2)
              IN  /\ status' = "running"
                  /\ pc' = (pc + 3) % 65536
                  /\ registers'[arm[2]] = w \div 256
                  /\ registers'[arm[3]] = w % 256
                  /\ join_half_words(registers'[arm[2]], registers'[arm[3]]) = w
                  /\ split_word(w) = <<registers'[arm[2]], registers'[arm[3]]>>
                  /\ HalfWordsRoundTrip]_vars

\* LD HL,0x1234 has just loaded H = 0x12 and L = 0x34
C16_Witness ==
    /\ turn = "gpu"
    /\ status = "running"
    /\ LastExecuted.opcode = \h21
    /\ CodeByte(LastExecuted.pc + 1) = \h34
    /\ CodeByte(LastExecuted.pc + 2) = \h12
    /\ pc = LastExecuted.pc + 3
    /\ registers.h = \h12
    /\ registers.l = \h34
    /\ read_hl(Machine) = \h1234

\* A call of Cpu::step that begins an instruction
Executing == turn = "cpu" /\ status = "running" /\ ~halted /\ turn' = "gpu"

\* C17: whatever the opcode byte, 0x00..0xFF (0xCB with its second byte), the
\* step that fetches it executes it and returns: no step ends in the abort
\* of an instruction that is not implemented.
C17_CompleteOpcodeTable ==
    [][Executing => status' # "not yet implemented"]_vars

\* C18: a step that aborts on an opcode that is not implemented has had no
\* effect: PC (the fetch included), SP, the registers and the memory are as
\* they were before the step.
C18_AtomicAbort ==
    [][(Executing /\ status' = "not yet implemented") =>
          /\ pc' = pc
          /\ sp' = sp
          /\ registers' = registers
          /\ bus' = bus]_vars

\* The lowest bit set in the interrupt mask b, and the vector of that bit:
\* VBlank 0x40, LCDSTAT 0x48, Timer 0x50, Serial 0x58, Joypad 0x60
LowestBit(b) ==
    CHOOSE i \in 0..4 :
        /\ Shr(b, i) % 2 = 1
        /\ \A j \in 0..(i - 1) : Shr(b, j) % 2 = 0
Vector(b) == \h40 + 8 * LowestBit(b)

\* C19: with IME = 1 and (IF & IE & 0x1F) # 0 the next step dispatches the
\* interrupt of the lowest bit set instead of fetching at PC.  The program
\* LD A,b; LD (FFFF),A; LD (FF0F),A; EI; NOP runs its five instructions (EI
\* takes effect after the NOP), and the sixth step clears the bit in IF,
\* pushes PC = 0x0108 and sets PC to the vector.
C19_InterruptDispatch ==
    \A b \in InterruptBits :
        image = InterruptRom(b) =>
            /\ gpu_steps <= 6 => status = "running"
            /\ (gpu_steps = 6 /\ turn = "cpu") =>
                   /\ pc = Vector(b)
                   /\ sp = INIT_SP - 2
                   /\ bus_read_byte(Machine, INIT_SP - 1).ret = \h01
                   /\ bus_read_byte(Machine, INIT_SP - 2).ret = \h08
                   /\ bus_read_byte(Machine, \hFF0F).ret = b - Pow2(LowestBit(b))

\* C20: the driver advances the Gpu by the cycles the instruction just
\* executed has cost, so the call of Gpu::step that follows a CALL u16 (three
\* bytes fetched, two pushed) advances it further than the 4 cycles of one
\* machine cycle that follow a NOP.
C20_CpuDictatesPpuTime ==
    [][(/\ turn = "gpu" /\ turn' = "cpu"
        /\ status' = "running"
        /\ ~halted
        /\ executed # <<>>)
       => /\ LastExecuted.opcode = \h00 => gpu'.cycles - gpu.cycles = 4
          /\ LastExecuted.opcode = \hCD => gpu'.cycles - gpu.cycles > 4]_vars

\* C21: ADD HL,BC (0x09) stores (HL + BC) mod 2^16 in HL, leaves Z as it was,
\* sets N = 0, H = carry out of bit 11, C = carry out of bit 15, and changes
\* no other register.
C21_AddHlFlags ==
    [][(About(\h09) /\ turn' = "gpu") =>
          LET hl == join_half_words(registers.h, registers.l)
              rr == join_half_words(registers.b, registers.c)
          IN  /\ status' = "running"
              /\ pc' = (pc + 1) % 65536
              /\ join_half_words(registers'.h, registers'.l) = (hl + rr) % 65536
              /\ registers'.f = [z |-> registers.f.z,
                                 n |-> FALSE,
                                 h |-> (hl % 4096) + (rr % 4096) > 4095,
                                 c |-> hl + rr > 65535]
              /\ \A r \in {"a", "b", "c", "d", "e"} : registers'[r] = registers[r]]_vars

\* C22: RLCA (0x07) rotates A left by one bit, bit 7 going to bit 0 and to C;
\* RRCA (0x0F) rotates A right by one bit, bit 0 going to bit 7 and to C; both
\* leave Z = 0, N = 0, H = 0 and change no other register.
C22_AccumulatorRotates ==
    [][/\ (About(\h07) /\ turn' = "gpu") =>
              /\ status' = "running"
              /\ registers' =
                     [registers EXCEPT
                         !.a = ((2 * registers.a) % 256) + (registers.a \div 128),
                         !.f = [z |-> FALSE, n |-> FALSE, h |-> FALSE,
                                c |-> registers.a >= 128]]
       /\ (About(\h0F) /\ turn' = "gpu") =>
              /\ status' = "running"
              /\ registers' =
                     [registers EXCEPT
                         !.a = (registers.a \div 2) + 128 * (registers.a % 2),
                         !.f = [z |-> FALSE, n |-> FALSE, h |-> FALSE,
                                c |-> registers.a % 2 = 1]]]_vars

CpFlags(a, x) ==
    [z |-> a = x, n |-> TRUE, h |-> (a % 16) < (x % 16), c |-> a < x]

\* Cpu::cp_u8 on every A and every operand, from flags all clear and all set
CpEveryPair ==
    \A a \in Byte, x \in Byte, before \in BOOLEAN :
        LET s == [status |-> "running", operands |-> <<x>>,
                  registers |-> [Cpu_new.registers EXCEPT
                                    !.a = a,
                                    !.f = [z |-> before, n |-> before,
                                           h |-> before, c |-> before]]]
        IN  cp_u8(s) = [s EXCEPT !.registers.f = CpFlags(a, x)]

\* C23: CP A,u8 (0xFE) with operand x leaves A and the other registers as
\* they are and sets Z = (A = x), N = 1, H = ((A & 0x0F) < (x & 0x0F)),
\* C = (A < x), for all bytes A and x.
C23_CompareFlags ==
    [][(About(\hFE) /\ turn' = "gpu") =>
          /\ status' = "running"
          /\ pc' = (pc + 2) % 65536
          /\ registers' =
                 [registers EXCEPT !.f = CpFlags(registers.a, CodeByte(pc + 1))]
          /\ CpEveryPair]_vars

\* CP A,0x10 has just compared A = 0x01: a borrow, no half borrow
C23_Witness ==
    /\ turn = "gpu"
    /\ status = "running"
    /\ LastExecuted.opcode = \hFE
    /\ CodeByte(LastExecuted.pc + 1) = \h10
    /\ pc = LastExecuted.pc + 2
    /\ registers.a = \h01
    /\ registers.f = [z |-> FALSE, n |-> TRUE, h |-> FALSE, c |-> TRUE]

\* Bit i of a byte
Bit(byte, i) == Shr(byte, i) % 2 = 1

\* C24: decoding a byte into the flag register takes Z from bit 7, N from
\* bit 6, H from bit 5 and C from bit 4, for every byte; so the flags
\* Cpu::new decodes from 0x80 are Z alone.
C24_FlagByteLayout ==
    /\ \A byte \in Byte :
           FlagRegister_from_byte(byte) =
               [z |-> Bit(byte, 7), n |-> Bit(byte, 6),
                h |-> Bit(byte, 5), c |-> Bit(byte, 4)]
    /\ (executed = <<>> /\ calls = <<>> /\ gpu_steps = 0) =>
           registers.f = [z |-> TRUE, n |-> FALSE, h |-> FALSE, c |-> FALSE]

\* The memory m with byte b stored at address a of RAM
Stored(m, a, b) ==
    LET device == resolve_bus_address(a)
        ram == CASE device.kind = "HRam" -> "h_ram"
                 [] device.kind = "OamRam" -> "oam_ram"
                 [] device.kind = "MirrorRam" -> "mirror_ram"
                 [] device.kind = "WorkingRam" -> "working_ram"
                 [] device.kind = "VideoRam" -> "video_ram"
    IN  [m EXCEPT ![ram] = VecSet(@, device.address, b)]

\* C25: LD (u16),SP (0x08) with the immediate address a, low byte first, and
\* a and a + 1 in RAM, stores the low byte of SP at a and the high byte at
\* a + 1 and changes no other byte of memory, no register, and not SP.
C25_WordWrite ==
    [][(About(\h08) /\ turn' = "gpu") =>
          LET a == CodeByte(pc + 1) + 256 * CodeByte(pc + 2)
          IN  (/\ a < 65535
               /\ resolve_bus_address(a).kind \in RamKinds
               /\ resolve_bus_address(a + 1).kind \in RamKinds)
              => /\ status' = "running"
                 /\ pc' = (pc + 3) % 65536
                 /\ bus_read_byte(Machine', a).ret = sp % 256
                 /\ bus_read_byte(Machine', a + 1).ret = sp \div 256
                 /\ bus' = Stored(Stored(bus, a, sp % 256), a + 1, sp \div 256)
                 /\ <<sp', registers', gpu'>> = <<sp, registers, gpu>>]_vars

\* LD (0xDFFF),SP has just stored SP = 0xFF01: 0x01 at the last byte of work
\* RAM and 0xFF at the address after it
C25_Witness ==
    /\ turn = "gpu"
    /\ status = "running"
    /\ LastExecuted.opcode = \h08
    /\ CodeByte(LastExecuted.pc + 1) = \hFF
    /\ CodeByte(LastExecuted.pc + 2) = \hDF
    /\ sp = \hFF01
    /\ bus_read_byte(Machine, \hDFFF).ret = \h01
    /\ bus_read_byte(Machine, \hE000).ret = \hFF

ConditionalOps ==
    {\h20, \h28, \h30, \h38, \hC0, \hC8, \hD0, \hD8, \hC4, \hCC, \hD4, \hDC}

\* The condition that bits 4..3 of a conditional opcode name: NZ, Z, NC, C
ConditionHolds(op, f) ==
    LET cc == (op \div 8) % 4
    IN  CASE cc = 0 -> ~f.z
          [] cc = 1 -> f.z
          [] cc = 2 -> ~f.c
          [] cc = 3 -> f.c

\* The instruction that always does what a conditional one does when taken
Unconditional(op) ==
    IF op < \h40 THEN \h18 ELSE IF op % 8 = 4 THEN \hCD ELSE \hC9

ImmediateBytes(op) == IF op < \h40 THEN 1 ELSE IF op % 8 = 4 THEN 2 ELSE 0

\* From s, about to execute the conditional op: taken, one step ends as a step
\* of the unconditional instruction would; not taken, it ends at the next
\* instruction with SP and memory as they were; the flags stay either way
ConditionalStep(s, op, after) ==
    /\ after.registers.f = s.registers.f
    /\ IF ConditionHolds(op, s.registers.f)
       THEN LET taken == execute(fetch(s), Unconditional(op))
            IN  <<after.status, after.pc, after.sp, after.bus, after.registers>>
                    = <<taken.status, taken.pc, taken.sp, taken.bus, taken.registers>>
       ELSE /\ after.status = "running"
            /\ after.pc = (s.pc + 1 + ImmediateBytes(op)) % 65536
            /\ after.sp = s.sp
            /\ after.bus = s.bus

\* C26: JR cc, CALL cc and RET cc are taken exactly when the condition holds
\* (NZ: Z = 0, Z: Z = 1, NC: C = 0, C: C = 1): taken, the step does what JR,
\* CALL or RET does; not taken, PC is the address of the next instruction and
\* SP and memory are unchanged; the flags are unchanged in both cases. In the
\* step that executes one, and there for each of the four values of Z and C.
C26_ConditionalControlFlow ==
    [][(Executing /\ Beginning(Machine).opcode \in ConditionalOps) =>
          LET op == Beginning(Machine).opcode
          IN  /\ ConditionalStep(Machine, op, Machine')
              /\ \A z \in BOOLEAN, c \in BOOLEAN :
                     LET s == [Machine EXCEPT !.registers.f.z = z,
                                              !.registers.f.c = c]
                     IN  ConditionalStep(s, op, execute(fetch(s), op))]_vars

\* With Z set, RET NZ at 0x0122 was not taken and RET Z after it was: it
\* popped 0x0000 from the zeroes at 0xD000
C26_Witness ==
    /\ turn = "gpu"
    /\ status = "running"
    /\ Len(executed) = 2
    /\ executed[1] = [pc |-> \h0122, sp |-> \hD000, opcode |-> \hC0]
    /\ executed[2] = [pc |-> \h0123, sp |-> \hD000, opcode |-> \hC8]
    /\ registers.f.z
    /\ pc = 0
    /\ sp = \hD002

\* The implemented instructions other than jumps, calls and returns
StraightOps ==
    {\h00, \h03, \h04, \h05, \h07, \h08, \h09, \h0B, \h0C, \h0D, \h0F,
     \h22, \h2A, \h31, \h32, \h36, \h3A, \h76, \hAE,
     \hE0, \hE2, \hF0, \hF2, \hF3, \hFE}
    \cup {arm[1] : arm \in LdnU16Arms} \cup {arm[1] : arm \in LdnU8Arms}
    \cup {arm[1] : arm \in LdrrArms} \cup {arm[1] : arm \in LdrRrArms}
    \cup {arm[1] : arm \in LdrrRArms} \cup {arm[1] : arm \in XoraRArms}

\* How many immediate bytes follow the opcode of a straight instruction
Immediates(op) ==
    IF op \in {\h01, \h11, \h21, \h31, \h08} THEN 2
    ELSE IF op \in {\h06, \h0E, \h16, \h1E, \h26, \h2E, \h3E,
                    \h36, \hE0, \hF0, \hFE} THEN 1
    ELSE 0

\* The opcodes whose arm of execute is not todo!(), apart from those that
\* write PC
RunsStraight ==
    LET s == [registers |-> Cpu_new.registers, pc |-> Cpu_new.pc,
              sp |-> \hD000, halted |-> FALSE,
              bus |-> from_rom_byte(NopRom).bus, gpu |-> from_rom_byte(NopRom).gpu,
              held |-> {}, status |-> "running", relock |-> "none", ret |-> 0,
              operands |-> <<>>, build |-> [overflow_checks |-> FALSE,
                                            relock |-> "panic"]]
    IN  {op \in Byte : execute(s, op).status # "not yet implemented"}
            \ ({\h18, \hC3, \hC9, \hCD} \cup ConditionalOps)

HlPairs == {<<"b", "c">>, <<"d", "e">>, <<"h", "l">>}

\* What the step executing op did with the immediates at pc + 1 and pc + 2
UsesImmediates(op) ==
    LET n1 == CodeByte(pc + 1)
        n2 == CodeByte(pc + 2)
        u16 == n1 + 256 * n2
        hl == join_half_words(registers.h, registers.l)
        InRam(a) == resolve_bus_address(a).kind \in RamKinds
    IN  CASE op \in {\h01, \h11, \h21} ->
                 \E p \in HlPairs :
                     registers' = [registers EXCEPT ![p[1]] = n2, ![p[2]] = n1]
          [] op = \h31 -> sp' = u16
          [] op = \h08 ->
                 (u16 < 65535 /\ InRam(u16) /\ InRam(u16 + 1))
                     => bus' = Stored(Stored(bus, u16, sp % 256),
                                      u16 + 1, sp \div 256)
          [] op \in {\h06, \h0E, \h16, \h1E, \h26, \h2E, \h3E} ->
                 \E r \in {"a", "b", "c", "d", "e", "h", "l"} :
                     registers' = [registers EXCEPT ![r] = n1]
          [] op = \h36 -> InRam(hl) => bus' = Stored(bus, hl, n1)
          [] op = \hE0 ->
                 InRam(\hFF00 + n1) => bus' = Stored(bus, \hFF00 + n1, registers.a)
          [] op = \hF0 ->
                 InRam(\hFF00 + n1) =>
                     registers'.a = bus_read_byte(Machine, \hFF00 + n1).ret
          [] op = \hFE -> registers'.f = CpFlags(registers.a, n1)
          [] OTHER -> TRUE

\* C27: a step that executes an implemented instruction other than a jump,
\* call or return leaves PC = old PC + 1 + k, k the number of its immediate
\* bytes, and the immediates it uses are the bytes at old PC + 1 and old
\* PC + 2, the first being the low byte of a 16 bit immediate.
C27_FetchAdvancesPc ==
    /\ RunsStraight = StraightOps
    /\ [][(/\ Executing
           /\ Beginning(Machine).opcode \in StraightOps
           /\ status' = "running") =>
              LET op == Beginning(Machine).opcode
              IN  /\ pc' = (pc + 1 + Immediates(op)) % 65536
                  /\ UsesImmediates(op)]_vars

\* LD SP,0xD000 and LD HL,0xC080 have run: three bytes each, low byte first
C27_Witness ==
    /\ turn = "gpu"
    /\ status = "running"
    /\ Len(executed) = 2
    /\ executed[1].opcode = \h31
    /\ executed[2].opcode = \h21
    /\ executed[2].pc = executed[1].pc + 3
    /\ pc = executed[2].pc + 3
    /\ CodeByte(executed[2].pc + 1) = \h80
    /\ CodeByte(executed[2].pc + 2) = \hC0
    /\ sp = \hD000
    /\ registers.h = \hC0
    /\ registers.l = \h80

InRange(g) == g.ly \in 0..153 /\ g.cycles \in 0..455

\* Where in a line the next call of Gpu::step is tried from
LineCycles == {0, 4, 444, 448, 452, 455}

\* C28: between calls of Gpu::step, LY is within 0..153 and the cycles
\* elapsed in the line within 0..455: in every state of a run, and after a
\* call that returns from any line and any of the places above in it.
C28_PpuCounterRanges ==
    status = "running" =>
        /\ InRange(gpu)
        /\ (image = NopRom /\ gpu_steps = 0 /\ turn = "cpu") =>
               \A ly \in 0..153, cycles \in LineCycles :
                   LET from == [Machine EXCEPT !.gpu.ly = ly,
                                               !.gpu.cycles = cycles]
                       after == Unlock(Gpu_step(Lock(from, "gpu")), "gpu")
                   IN  Running(after) => InRange(after.gpu)

\* The 113th call of Gpu::step has returned: 452 cycles into line 0
C28_Witness ==
    /\ status = "running"
    /\ turn = "cpu"
    /\ gpu_steps = 113
    /\ gpu.ly = 0
    /\ gpu.cycles = 452

\* Video RAM, work RAM, OAM and high RAM
ReadWriteMemory(a) ==
    \/ Within(a, \h8000, \hA000)
    \/ Within(a, \hC000, \hE000)
    \/ Within(a, \hFE00, \hFEA0)
    \/ Within(a, \hFF80, \hFFFF)

\* No two addresses of read-write memory or of its echo decode to the same
\* byte of the same store, and each decodes to a byte the store has
OneStorePerAddress ==
    LET addresses == {a \in 0..65535 : ReadWriteMemory(a) \/ Within(a, \hE000, \hFE00)}
        decoded == {resolve_bus_address(a) : a \in addresses}
    IN  /\ Cardinality(decoded) = Cardinality(addresses)
        /\ \A device \in decoded :
               /\ device.kind \in RamKinds
               /\ device.address < \h2000

\* C29: a bus write of b to an address a of video RAM, work RAM, OAM or high
\* RAM returns, a bus read of a after it returns b, and the write changes
\* what a read returns at no other address (the echo of a set aside).
C29_OneBackingStore ==
    [][(calls' # calls /\ Len(calls') > 0) =>
          LET call == calls'[Len(calls')]
              a == call.address
          IN  /\ (call.op = "write" /\ ReadWriteMemory(a)) =>
                     /\ status' = "running"
                     /\ bus_read_byte(Machine', a).ret = call.byte
                     /\ bus' = Stored(bus, a, call.byte)
                     /\ gpu' = gpu
                     /\ OneStorePerAddress
                     /\ \A other \in BusAddresses \ {a, a + \h2000} :
                            LET before == bus_read_byte(Machine, other)
                                after == bus_read_byte(Machine', other)
                            IN  <<after.status, after.ret>>
                                    = <<before.status, before.ret>>
              /\ (/\ call.op = "read"
                  /\ Len(calls) > 0
                  /\ LastCall.op = "write"
                  /\ LastCall.address = a
                  /\ ReadWriteMemory(a)) =>
                     /\ status' = "running"
                     /\ returned' = LastCall.byte]_vars

\* 0x5A written to the first byte of work RAM has been read back
C29_Witness ==
    /\ calls = <<[op |-> "write", address |-> \hC000, byte |-> \h5A],
                 [op |-> "read", address |-> \hC000, byte |-> 0]>>
    /\ status = "running"
    /\ returned = \h5A

\* The register that the three bits n of an opcode select: B, C, D, E, H, L,
\* -, A
Selected(n) ==
    CASE n = 0 -> "b" [] n = 1 -> "c" [] n = 2 -> "d" [] n = 3 -> "e"
      [] n = 4 -> "h" [] n = 5 -> "l" [] n = 7 -> "a"

RegisterLoads ==
    {op \in \h40..\h7F : op # \h76 /\ (op \div 8) % 8 # 6 /\ op % 8 # 6}

ImmediateLoads == {\h06, \h0E, \h16, \h1E, \h26, \h2E, \h3E}

\* C30: the step that executes an LD r,r' (0x40..0x7F but 0x76 and the (HL)
\* forms) copies the register that bits 2..0 select into the one that bits
\* 5..3 select, and the step that executes an LD r,u8 writes its immediate to
\* the register that bits 5..3 select; no other register or flag changes.
C30_RegisterLoadDecoding ==
    [][(/\ Executing
        /\ Beginning(Machine).opcode \in RegisterLoads \cup ImmediateLoads) =>
           LET op == Beginning(Machine).opcode
               dest == Selected((op \div 8) % 8)
           IN  /\ status' = "running"
               /\ registers' =
                      [registers EXCEPT ![dest] =
                          IF op \in ImmediateLoads THEN CodeByte(pc + 1)
                          ELSE registers[Selected(op % 8)]]]_vars

\* C31: with a 32 KiB ROM image loaded, a bus read or write of an address in
\* 0xA000..0xBFFF returns (no index out of the range of the cartridge data)
\* and leaves the bytes of the ROM as they were.
C31_ExternalRamWindow ==
    [][(/\ calls' # calls
        /\ Len(calls') > 0
        /\ Within(calls'[Len(calls')].address, \hA000, \hC000)
        /\ bus.cartridge.size = RomSize) =>
           /\ status' = "running"
           /\ bus'.cartridge = bus.cartridge]_vars

InVram(a) == Within(a, \h8000, \hA000)

\* The PPU with the given line, scroll values and LCDC
Ppu(ly, scroll_x, scroll_y, lcdc) ==
    [Gpu_new(1024, TRUE) EXCEPT !.ly = ly, !.scroll_x = scroll_x,
                                !.scroll_y = scroll_y, !.lcdc = lcdc]

\* The address of the tilemap entry: every row and column of tiles that a
\* line 0..143, a column 0..159 and scroll values 0..255 select, and every
\* LCDC
TileMapFetches ==
    LET rows == {tile_y(Ppu(ly, 0, scroll_y, 0)) : ly \in 0..143, scroll_y \in Byte}
        columns == {tile_x(Ppu(0, scroll_x, 0, 0), x) :
                        x \in 0..(SCREEN_WIDTH - 1), scroll_x \in Byte}
        maps == {get_bg_tilemap_addr(Ppu(0, 0, 0, lcdc)) : lcdc \in Byte}
    IN  {get_tile_id_addr(row, column, map) :
             row \in rows, column \in columns, map \in maps}

\* The addresses of the two bytes of a row of a tile: every tile index and
\* every row 0..7
TileRowFetches ==
    UNION {{get_bg_palette_id_base(tile_id, y),
            get_bg_palette_id_base(tile_id, y) + 1} :
               tile_id \in Byte, y \in 0..7}

FetchesInVram == \A a \in TileMapFetches \cup TileRowFetches : InVram(a)

\* How a pass of the loop of build_gb_tile ends when every bus read it makes
\* returns: at its todo!(), or before it at an arithmetic overflow
EndsOfColumn ==
    {"not yet implemented", "attempt to add with overflow",
     "attempt to multiply with overflow", "attempt to subtract with overflow"}

\* C32: every address the PPU reads during Gpu::step, the tilemap entry and
\* the two bytes of the tile row, lies in 0x8000..0x9FFF, whatever the line,
\* the column, the scroll values, the tilemap LCDC selects and the tile
\* index; so the read of a PPU step never takes the gpu lock again and never
\* indexes the cartridge: the step that ends a line ends at the todo!() of
\* build_gb_tile or at an overflow, from any line and for any tile index.
C32_PpuFetchesInVram ==
    /\ FetchesInVram
    /\ (turn = "cpu" /\ gpu_steps = 114) => status \in EndsOfColumn
    /\ (turn = "gpu" /\ status = "running" /\ gpu.cycles = 452
        /\ image = NopRom) =>
           LET held_gpu == Lock(Machine, "gpu")
           IN  /\ \A ly \in {0, 7, 8, 143}, scroll \in {0, 9, 255},
                     lcdc \in {\h91, \h99}, x \in {0, 7, 8, 159} :
                      LET from == [held_gpu EXCEPT
                                      !.gpu = [@ EXCEPT !.ly = ly,
                                                        !.scroll_x = scroll,
                                                        !.scroll_y = scroll,
                                                        !.lcdc = lcdc]]
                          after == build_gb_tile_column(from, x)
                      IN  after.status \in EndsOfColumn /\ after.relock = "none"
               /\ \A tile_id \in Byte, y \in 0..7 :
                      LET after == get_bg_palette_id(held_gpu, tile_id, 0, y)
                      IN  /\ after.status \in EndsOfColumn \cup {"running"}
                          /\ after.relock = "none"

\* The step that ends line 0 has read the tilemap entry at 0x9800 and the two
\* bytes at 0x8800 and 0x8801 and has reached the todo!()
C32_Witness ==
    /\ turn = "cpu"
    /\ gpu_steps = 114
    /\ ~build.overflow_checks
    /\ gpu.ly = 0
    /\ status = "not yet implemented"
    /\ relock = "none"

\* C33: Gpu::write(offset, b), as a bus write of b to 0xFF40 + offset makes
\* it, returns, changes the PPU's register byte at that offset (Gpu::read
\* of it returns b) and leaves the cartridge and every byte of video, work,
\* OAM and high RAM as they were.
C33_PpuWritesStayInside ==
    [][(/\ calls' # calls
        /\ Len(calls') > 0
        /\ calls'[Len(calls')].op = "write"
        /\ Within(calls'[Len(calls')].address, \hFF40, \hFF80)) =>
           LET call == calls'[Len(calls')]
               offset == call.address - \hFF40
           IN  /\ status' = "running"
               /\ Gpu_read(Machine', offset).ret = call.byte
               /\ gpu' = [gpu EXCEPT !.data = VecSet(@, offset, call.byte)]
               /\ bus' = bus]_vars

\* The 16 bit counting instructions as <<opcode, upper, lower, step>>
CounterOps ==
    {<<\h03, "b", "c", 1>>, <<\h0B, "b", "c", -1>>,
     <<\h22, "h", "l", 1>>, <<\h2A, "h", "l", 1>>,
     <<\h32, "h", "l", -1>>, <<\h3A, "h", "l", -1>>}

\* C34: INC BC, DEC BC, LD (HL+),A, LD A,(HL+), LD (HL-),A and LD A,(HL-)
\* leave the pair at (value + 1) mod 2^16 or (value - 1) mod 2^16, whatever
\* the value, 0x0000 and 0xFFFF included, without aborting and with the flags
\* as they were; the HL forms store A at, or load A from, the address that HL
\* held before.
C34_CountersWrap ==
    [][(Executing /\ \E o \in CounterOps : o[1] = Beginning(Machine).opcode) =>
          LET o == CHOOSE o \in CounterOps : o[1] = Beginning(Machine).opcode
              value == registers[o[2]] * 256 + registers[o[3]]
              next == (value + o[4]) % 65536
          IN  /\ status' = "running"
              /\ registers'[o[2]] = next \div 256
              /\ registers'[o[3]] = next % 256
              /\ registers'.f = registers.f
              /\ o[1] \in {\h22, \h32} =>
                     bus_read_byte(Machine', value).ret = registers.a
              /\ o[1] \in {\h2A, \h3A} =>
                     registers'.a = bus_read_byte(Machine, value).ret]_vars

=============================================================================
